---- MODULE Spec2Model ----
(***************************************************************************)
(* Key-frame extraction (scripts/extract_frames.py): main parses the       *)
(* command line and calls extract_key_frames, which reads the video frame  *)
(* by frame, saves frame 0 unconditionally, then saves every frame whose   *)
(* difference score against the last saved frame reaches the threshold,    *)
(* subject to a minimum spacing and a maximum count.                       *)
(*                                                                         *)
(* A frame is a sequence of BGR pixels, a pixel a triple <<b, g, r>>.      *)
(* The score and the timestamp are computed in IEEE-754 double precision   *)
(* in the code.  A double is modelled here by its 53-bit significand and   *)
(* its binary exponent, and every operation rounds to nearest, ties to     *)
(* even, so that (mean / 255.0) * 100.0 and int((frame_count / fps) *      *)
(* 1000) give the values the interpreter gives, rounding errors included.  *)
(***************************************************************************)
EXTENDS Integers, Sequences, FiniteSets

\* ---- bounds of the model ------------------------------------------------
MaxLen == 4          \* longest video, in frames
MaxInterval == 2     \* largest min_interval given on the command line
MaxMaxFrames == 3    \* largest max_frames given on the command line

\* ---- program constants --------------------------------------------------
DefaultThreshold == 5
DefaultMinInterval == 30
DefaultMaxFrames == 100
FilenameWidth == 6
MaxIntensity == 255
ScoreScale == 100
MsPerSecond == 1000

\* ---- inputs ---------------------------------------------------------------
\* Five-pixel images.  Against Black the exact score of Dim is 4, but the
\* double the code computes is 3.9999999999999996; the score of Blue is
\* 2.27..., of White 100.0; White against Dim gives 96.00000000000001.
PxBlack == <<0, 0, 0>>
PxDim   == <<51, 51, 51>>
PxWhite == <<255, 255, 255>>
PxBlue  == <<255, 0, 0>>
Black == <<PxBlack, PxBlack, PxBlack, PxBlack, PxBlack>>
Dim   == <<PxDim, PxBlack, PxBlack, PxBlack, PxBlack>>
White == <<PxWhite, PxWhite, PxWhite, PxWhite, PxWhite>>
Blue  == <<PxBlue, PxBlack, PxBlack, PxBlack, PxBlack>>
FramePool == {Black, Dim, White, Blue}

\* frame rates the decoder may report; 0 is what malformed containers give
FpsSet == {0, 30}

\* a command-line token: a decimal integer, or text that float()/int() reject
BadToken == [bad |-> TRUE]
Num(n) == [bad |-> FALSE, val |-> n]
ThresholdTokens == {Num(0), Num(4), Num(100), BadToken}
IntervalTokens == {Num(n) : n \in 0..MaxInterval} \cup {BadToken}
MaxFramesTokens == {Num(n) : n \in 1..MaxMaxFrames} \cup {BadToken}
PathToken == [bad |-> FALSE, val |-> 0]

\* sys.argv[1:]: video path, output directory, then the optional numbers; one
\* command line carries a sixth word, which main never reads
ArgvSet ==
    {<<>>, <<PathToken>>, <<PathToken, PathToken>>}
    \cup {<<PathToken, PathToken, t>> : t \in ThresholdTokens}
    \cup {<<PathToken, PathToken, t, i>> : t \in ThresholdTokens, i \in IntervalTokens}
    \cup {<<PathToken, PathToken, t, i, m>> :
            t \in ThresholdTokens, i \in IntervalTokens, m \in MaxFramesTokens}
    \cup {<<PathToken, PathToken, Num(4), Num(1), Num(MaxMaxFrames), BadToken>>}

Videos == UNION {[1..n -> FramePool] : n \in 0..MaxLen}

None == <<>>

VARIABLES
    argv,                 \* sys.argv[1:]
    openable,             \* whether cv2.VideoCapture can open the video
    video,                \* the frames of the video file, in order
    video_fps,            \* CAP_PROP_FPS of the video file
    pc,                   \* position of the run
    threshold, min_interval, max_frames,     \* main's parsed arguments
    fps,                  \* extract_key_frames: local fps
    extracted_frames,     \* extract_key_frames: list of records
    prev_frame,           \* extract_key_frames: baseline frame
    frame_count,          \* extract_key_frames: index of the current frame
    last_extracted_frame, \* extract_key_frames: index of the last saved frame
    pos,                  \* decoder: number of frames handed out by cap.read()
    ret,                  \* result flag of the last cap.read()
    released,             \* number of cap.release() calls
    dir_created,          \* os.makedirs(output_dir) has run
    writes,               \* cv2.imwrite calls so far: <<path, frame>> in order
    stdout,               \* what was printed to the primary output stream
    stderr,               \* what was printed to the error stream
    exit_status           \* -1 while running, then the process exit status

vars == <<argv, openable, video, video_fps, pc, threshold, min_interval,
          max_frames, fps, extracted_frames, prev_frame, frame_count,
          last_extracted_frame, pos, ret, released, dir_created, writes,
          stdout, stderr, exit_status>>

inputVars == <<argv, openable, video, video_fps>>
policyVars == <<threshold, min_interval, max_frames>>
loopVars == <<extracted_frames, prev_frame, frame_count, last_extracted_frame>>

\* ---- pure functions ---------------------------------------------------------
Abs(x) == IF x < 0 THEN 0 - x ELSE x

\* cv2.cvtColor(_, COLOR_BGR2GRAY) on one 8-bit pixel: fixed-point weights
\* 0.114 B + 0.587 G + 0.299 R with 15 fractional bits, rounded
Gray(px) == (px[1] * 3735 + px[2] * 19235 + px[3] * 9798 + 16384) \div 32768

RECURSIVE SumAbsDiff(_, _, _)
SumAbsDiff(f1, f2, i) ==
    IF i > Len(f1) THEN 0
    ELSE Abs(Gray(f1[i]) - Gray(f2[i])) + SumAbsDiff(f1, f2, i + 1)

\* ---- double-precision arithmetic ------------------------------------------------
\* A natural number of any size is the sequence of its digits in base 256, most
\* significant first (a significand has 53 bits, more than a machine integer
\* of TLC holds).  A non-negative double is [m |-> digits, e |-> exponent] with value
\* m * 2^e, where m has exactly 53 bits; zero is FloatZero.
DigitBits == 8
Base == 2 ^ DigitBits
MantissaBits == 53
GuardDigits == 8

RECURSIVE DigitsOf(_)
DigitsOf(n) == IF n = 0 THEN <<>> ELSE Append(DigitsOf(n \div Base), n % Base)

RECURSIVE IntOfDigits(_, _)
IntOfDigits(ds, i) == IF i = 0 THEN 0 ELSE Base * IntOfDigits(ds, i - 1) + ds[i]

Zeros(n) == [i \in 1..n |-> 0]

\* digits of ds[1..i] * k + carry
RECURSIVE MulDigits(_, _, _, _)
MulDigits(ds, i, k, carry) ==
    IF i = 0 THEN DigitsOf(carry)
    ELSE LET t == ds[i] * k + carry
         IN  Append(MulDigits(ds, i - 1, k, t \div Base), t % Base)

\* long division of ds[i..] by d: quotient digits q and remainder r
RECURSIVE DivDigits(_, _, _, _, _)
DivDigits(ds, i, d, r, q) ==
    IF i > Len(ds) THEN [q |-> q, r |-> r]
    ELSE LET t == r * Base + ds[i]
         IN  DivDigits(ds, i + 1, d, t % d, Append(q, t \div d))

RECURSIVE StripZeros(_)
StripZeros(ds) ==
    IF ds # <<>> /\ Head(ds) = 0 THEN StripZeros(Tail(ds)) ELSE ds

RECURSIVE BitLengthOfInt(_)
BitLengthOfInt(n) == IF n = 0 THEN 0 ELSE 1 + BitLengthOfInt(n \div 2)

BitLength(ds) ==
    IF ds = <<>> THEN 0 ELSE (Len(ds) - 1) * DigitBits + BitLengthOfInt(ds[1])

ShiftLeft(ds, n) ==
    MulDigits(ds, Len(ds), 2 ^ (n % DigitBits), 0) \o Zeros(n \div DigitBits)

\* ds shifted right by n bits: the quotient q, whether the bits shifted out
\* start with a 1 (half), and whether any bit after that one is set (rest)
ShiftRight(ds, n) ==
    LET pad     == (DigitBits - (n % DigitBits)) % DigitBits
        wide    == MulDigits(ds, Len(ds), 2 ^ pad, 0)
        cut     == (n + pad) \div DigitBits
        keep    == Len(wide) - cut
        dropped == SubSeq(wide, keep + 1, Len(wide))
    IN  [q    |-> SubSeq(wide, 1, keep),
         half |-> cut > 0 /\ dropped[1] >= Base \div 2,
         rest |-> cut > 0 /\ (dropped[1] % (Base \div 2) # 0
                              \/ \E i \in 2..cut : dropped[i] # 0)]

FloatZero == [m |-> <<>>, e |-> 0]

\* the double nearest to ds * 2^e (plus a non-zero fraction of 2^e when sticky),
\* ties to even
RoundToDouble(ds, sticky, e) ==
    LET len == BitLength(ds) IN
    IF len = 0 THEN FloatZero
    ELSE IF len <= MantissaBits
    THEN [m |-> ShiftLeft(ds, MantissaBits - len), e |-> e - (MantissaBits - len)]
    ELSE LET sh  == ShiftRight(ds, len - MantissaBits)
             e2  == e + (len - MantissaBits)
             up  == sh.half /\ (sh.rest \/ sticky \/ sh.q[Len(sh.q)] % 2 = 1)
             inc == MulDigits(sh.q, Len(sh.q), 1, 1)
         IN  IF ~up THEN [m |-> sh.q, e |-> e2]
             ELSE IF BitLength(inc) > MantissaBits
             THEN [m |-> ShiftRight(inc, 1).q, e |-> e2 + 1]
             ELSE [m |-> inc, e |-> e2]

\* float(n) for a natural number n
FloatOfInt(n) == RoundToDouble(DigitsOf(n), FALSE, 0)

\* the double (a * k) / d for whole numbers k, d >= 1, rounded once
FloatMulDiv(a, k, d) ==
    LET product  == MulDigits(a.m, Len(a.m), k, 0) \o Zeros(GuardDigits)
        division == DivDigits(product, 1, d, 0, <<>>)
    IN  RoundToDouble(StripZeros(division.q), division.r # 0,
                      a.e - GuardDigits * DigitBits)

\* a / d and a * k in double precision, d and k whole numbers
FloatDiv(a, d) == FloatMulDiv(a, 1, d)
FloatMul(a, k) == FloatMulDiv(a, k, 1)

\* int(a) for a double a >= 0
FloatFloor(a) ==
    IF a.m = <<>> \/ MantissaBits + a.e <= 0 THEN 0
    ELSE LET q == ShiftRight(a.m, 0 - a.e).q IN IntOfDigits(q, Len(q))

\* a >= b
FloatGE(a, b) ==
    IF b.m = <<>> THEN TRUE
    ELSE IF a.m = <<>> THEN FALSE
    ELSE IF a.e # b.e THEN a.e > b.e
    ELSE LET D == {i \in 1..Len(a.m) : a.m[i] # b.m[i]}
             first == CHOOSE i \in D : \A j \in D : i <= j
         IN  IF D = {} THEN TRUE ELSE a.m[first] > b.m[first]

\* calculate_frame_difference: mean_diff = np.mean(absdiff(gray1, gray2)), then
\* (mean_diff / 255.0) * 100.0, each operation rounded to a double
calculate_frame_difference(frame1, frame2) ==
    LET mean_diff == FloatDiv(FloatOfInt(SumAbsDiff(frame1, frame2, 1)), Len(frame1))
    IN  FloatMul(FloatDiv(mean_diff, MaxIntensity), ScoreScale)

\* the call of line 109; the scores of the images of the pool are computed once
PoolScores ==
    [a \in FramePool |-> [b \in FramePool |-> calculate_frame_difference(a, b)]]
ScoreAgainst(baseline, frame) ==
    IF baseline \in FramePool /\ frame \in FramePool
    THEN PoolScores[baseline][frame]
    ELSE calculate_frame_difference(baseline, frame)

\* variant: the threshold itself does not select
ReachesThreshold_Strict(score, thr) == ~FloatGE(FloatOfInt(thr), score)

\* variant: comparison reversed
ReachesThreshold_AtMost(score, thr) == FloatGE(FloatOfInt(thr), score)

\* diff_score >= threshold, threshold = float(sys.argv[3]) or 5.0
ReachesThreshold(score, thr) == FloatGE(score, FloatOfInt(thr))

\* variant: rounding to the nearest integer
IntOfScore_Rounded(score) == (FloatFloor(FloatMul(score, 2)) + 1) \div 2

\* int(diff_score): truncation of a non-negative float
IntOfScore(score) == FloatFloor(score)

\* int((frame_count / fps) * 1000), fps # 0: the quotient is rounded to a
\* double before it is multiplied
Timestamp(fc, f) == FloatFloor(FloatMul(FloatDiv(FloatOfInt(fc), f), MsPerSecond))

\* the timestamps of the frames of a video of the model are computed once
FrameTimes ==
    [fc \in 0..MaxLen |-> [f \in FpsSet \ {0} |-> Timestamp(fc, f)]]
TimestampOf(fc, f) ==
    IF fc \in 0..MaxLen /\ f \in FpsSet \ {0}
    THEN FrameTimes[fc][f]
    ELSE Timestamp(fc, f)

RECURSIVE Digits(_, _)
Digits(n, width) ==
    IF width <= 1 /\ n < 10 THEN <<n>>
    ELSE Append(Digits(n \div 10, width - 1), n % 10)

\* variant: no zero padding
FrameFilename_Unpadded(fc) == <<"frame_">> \o Digits(fc, 1) \o <<".jpg">>

\* f"frame_{frame_count:06d}.jpg"
FrameFilename(fc) == <<"frame_">> \o Digits(fc, FilenameWidth) \o <<".jpg">>

\* os.path.join(output_dir, name) and os.path.basename of it
OutputPath(name) == [dir |-> "output_dir", base |-> name]
Basename(path) == path.base

\* variant: frames numbered from 1
MakeRecord_OneBased(fc, f, score) ==
    [frame_number |-> fc + 1,
     timestamp |-> TimestampOf(fc, f),
     filename |-> Basename(OutputPath(FrameFilename(fc))),
     diff_score |-> score]

\* the record appended to extracted_frames
MakeRecord(fc, f, score) ==
    [frame_number |-> fc,
     timestamp |-> TimestampOf(fc, f),
     filename |-> Basename(OutputPath(FrameFilename(fc))),
     diff_score |-> score]

\* variant: interval test off by one
WithinInterval_OffByOne(fc, last, interval) == fc - last < interval - 1

\* frame_count - last_extracted_frame < min_interval
WithinInterval(fc, last, interval) == fc - last < interval

\* len(extracted_frames) >= max_frames
ReachedMax(frames, limit) == Len(frames) >= limit

\* variant: the baseline follows every scored frame
NextBaseline_LastSeen(selected, baseline, frame) == frame

\* variant: the baseline is never replaced
NextBaseline_Stale(selected, baseline, frame) == baseline

\* prev_frame after a scored frame: frame.copy() on selection, else unchanged
NextBaseline(selected, baseline, frame) == IF selected THEN frame ELSE baseline

\* float(sys.argv[3]), int(sys.argv[4]) or int(sys.argv[5]) raises ValueError;
\* words after the fifth are not converted
BadArguments == \E i \in 3..5 : i <= Len(argv) /\ argv[i].bad

\* ---- initial state ------------------------------------------------------------
\* A run that never reaches cv2.VideoCapture (usage error, bad argument) does
\* not look at the video file: one representative file is kept for it.
Init ==
    /\ argv \in ArgvSet
    /\ openable \in BOOLEAN
    /\ video \in Videos
    /\ video_fps \in FpsSet
    /\ (~openable => video = <<>> /\ video_fps = 0)
    /\ (Len(argv) < 2 \/ BadArguments => ~openable)
    /\ pc = "main"
    /\ threshold = 0 /\ min_interval = 0 /\ max_frames = 0
    /\ fps = 0
    /\ extracted_frames = <<>>
    /\ prev_frame = None
    /\ frame_count = 0
    /\ last_extracted_frame = 0
    /\ pos = 0
    /\ ret = FALSE
    /\ released = 0
    /\ dir_created = FALSE
    /\ writes = <<>>
    /\ stdout = <<>>
    /\ stderr = <<>>
    /\ exit_status = -1


\* ---- main: command line (lines 139-148) -------------------------------------
ArgOr(i, default) == IF Len(argv) >= i THEN argv[i].val ELSE default

\* len(sys.argv) < 3: usage text is printed with a plain print(), then exit(1)
MainUsage ==
    /\ pc = "main"
    /\ Len(argv) < 2
    /\ stdout' = Append(stdout, [kind |-> "usage"])
    /\ exit_status' = 1
    /\ pc' = "exited"
    /\ UNCHANGED <<inputVars, policyVars, fps, loopVars, pos, ret, released,
                   dir_created, writes, stderr>>

\* float()/int() raise ValueError outside the try block: the interpreter prints
\* the traceback on the error stream and exits with status 1
MainBadArgument ==
    /\ pc = "main"
    /\ Len(argv) >= 2
    /\ BadArguments
    /\ stderr' = Append(stderr, [kind |-> "traceback"])
    /\ exit_status' = 1
    /\ pc' = "exited"
    /\ UNCHANGED <<inputVars, policyVars, fps, loopVars, pos, ret, released,
                   dir_created, writes, stdout>>

MainParse ==
    /\ pc = "main"
    /\ Len(argv) >= 2
    /\ ~BadArguments
    /\ threshold' = ArgOr(3, DefaultThreshold)
    /\ min_interval' = ArgOr(4, DefaultMinInterval)
    /\ max_frames' = ArgOr(5, DefaultMaxFrames)
    /\ pc' = "call"
    /\ UNCHANGED <<inputVars, fps, loopVars, pos, ret, released, dir_created,
                   writes, stdout, stderr, exit_status>>

\* ---- extract_key_frames: opening (lines 60-78) --------------------------------
OpenFail ==
    /\ pc = "call"
    /\ ~openable
    /\ dir_created' = TRUE
    /\ pc' = "except"
    /\ UNCHANGED <<inputVars, policyVars, fps, loopVars, pos, ret, released,
                   writes, stdout, stderr, exit_status>>

Open ==
    /\ pc = "call"
    /\ openable
    /\ dir_created' = TRUE
    /\ fps' = video_fps
    /\ stderr' = Append(stderr, [kind |-> "info"])
    /\ extracted_frames' = <<>>
    /\ prev_frame' = None
    /\ frame_count' = 0
    /\ last_extracted_frame' = 0 - min_interval
    /\ pc' = "loop"
    /\ UNCHANGED <<inputVars, policyVars, pos, ret, released, writes, stdout,
                   exit_status>>

\* ---- extract_key_frames: the loop (lines 80-131) --------------------------------
\* variant: the loop does not leave on a failed read
ReadEnd_Continues ==
    /\ pc = "loop"
    /\ pos = Len(video)
    /\ ret' = FALSE
    /\ UNCHANGED <<inputVars, policyVars, fps, loopVars, pos, pc, released,
                   dir_created, writes, stdout, stderr, exit_status>>

\* cap.read() at the end of the video: ret is False, break
ReadEnd ==
    /\ pc = "loop"
    /\ pos = Len(video)
    /\ ret' = FALSE
    /\ pc' = "release"
    /\ UNCHANGED <<inputVars, policyVars, fps, loopVars, pos, released,
                   dir_created, writes, stdout, stderr, exit_status>>

\* variant: a decode failure before the end raises
ReadFail_Raises ==
    /\ pc = "loop"
    /\ pos < Len(video)
    /\ ret' = FALSE
    /\ pc' = "except"
    /\ UNCHANGED <<inputVars, policyVars, fps, loopVars, pos, released,
                   dir_created, writes, stdout, stderr, exit_status>>

\* cap.read() fails to decode a frame before the end: ret is False, break
ReadFail ==
    /\ pc = "loop"
    /\ pos < Len(video)
    /\ ret' = FALSE
    /\ pc' = "release"
    /\ UNCHANGED <<inputVars, policyVars, fps, loopVars, pos, released,
                   dir_created, writes, stdout, stderr, exit_status>>

\* frame_count == 0: the frame is written, then the record is built; with
\* fps = 0 the division raises ZeroDivisionError after the image was written
FirstFrame ==
    /\ pc = "loop"
    /\ pos < Len(video)
    /\ frame_count = 0
    /\ LET frame == video[pos + 1]
           output_path == OutputPath(FrameFilename(frame_count))
       IN  /\ ret' = TRUE
           /\ pos' = pos + 1
           /\ writes' = Append(writes, <<output_path, frame>>)
           /\ IF fps = 0
              THEN /\ pc' = "except"
                   /\ UNCHANGED loopVars
              ELSE /\ extracted_frames' =
                        Append(extracted_frames, MakeRecord(frame_count, fps, 0))
                   /\ prev_frame' = frame
                   /\ last_extracted_frame' = frame_count
                   /\ frame_count' = frame_count + 1
                   /\ pc' = "loop"
    /\ UNCHANGED <<inputVars, policyVars, fps, released, dir_created, stdout,
                   stderr, exit_status>>

\* variant: a skipped frame is not counted
SkipInterval_NoCount ==
    /\ pc = "loop"
    /\ pos < Len(video)
    /\ frame_count # 0
    /\ WithinInterval(frame_count, last_extracted_frame, min_interval)
    /\ ret' = TRUE
    /\ pos' = pos + 1
    /\ UNCHANGED <<inputVars, policyVars, fps, loopVars, pc, released,
                   dir_created, writes, stdout, stderr, exit_status>>

\* the minimum interval has not elapsed: count the frame and continue
SkipInterval ==
    /\ pc = "loop"
    /\ pos < Len(video)
    /\ frame_count # 0
    /\ WithinInterval(frame_count, last_extracted_frame, min_interval)
    /\ ret' = TRUE
    /\ pos' = pos + 1
    /\ frame_count' = frame_count + 1
    /\ UNCHANGED <<inputVars, policyVars, fps, extracted_frames, prev_frame,
                   last_extracted_frame, pc, released, dir_created, writes,
                   stdout, stderr, exit_status>>

\* the frame is scored against prev_frame and stays below the threshold
ScoreBelow ==
    /\ pc = "loop"
    /\ pos < Len(video)
    /\ frame_count # 0
    /\ ~WithinInterval(frame_count, last_extracted_frame, min_interval)
    /\ LET frame == video[pos + 1]
           diff_score == ScoreAgainst(prev_frame, frame)
       IN  /\ ~ReachesThreshold(diff_score, threshold)
           /\ prev_frame' = NextBaseline(FALSE, prev_frame, frame)
    /\ ret' = TRUE
    /\ pos' = pos + 1
    /\ frame_count' = frame_count + 1
    /\ UNCHANGED <<inputVars, policyVars, fps, extracted_frames,
                   last_extracted_frame, pc, released, dir_created, writes,
                   stdout, stderr, exit_status>>

\* the frame is scored against prev_frame and reaches the threshold: it is
\* written and recorded; the loop breaks once max_frames records exist
Select ==
    /\ pc = "loop"
    /\ pos < Len(video)
    /\ frame_count # 0
    /\ ~WithinInterval(frame_count, last_extracted_frame, min_interval)
    /\ LET frame == video[pos + 1]
           diff_score == ScoreAgainst(prev_frame, frame)
           output_path == OutputPath(FrameFilename(frame_count))
           appended == Append(extracted_frames,
                              MakeRecord(frame_count, fps, IntOfScore(diff_score)))
       IN  /\ ReachesThreshold(diff_score, threshold)
           /\ ret' = TRUE
           /\ pos' = pos + 1
           /\ writes' = Append(writes, <<output_path, frame>>)
           /\ IF fps = 0
              THEN /\ pc' = "except"
                   /\ UNCHANGED <<loopVars, stderr>>
              ELSE /\ extracted_frames' = appended
                   /\ last_extracted_frame' = frame_count
                   /\ prev_frame' = NextBaseline(TRUE, prev_frame, frame)
                   /\ IF ReachedMax(appended, max_frames)
                      THEN /\ stderr' = Append(stderr, [kind |-> "max"])
                           /\ pc' = "release"
                           /\ UNCHANGED frame_count
                      ELSE /\ frame_count' = frame_count + 1
                           /\ pc' = "loop"
                           /\ UNCHANGED stderr
    /\ UNCHANGED <<inputVars, policyVars, fps, released, dir_created, stdout,
                   exit_status>>

\* ---- extract_key_frames: after the loop (lines 133-137) --------------------------
Release ==
    /\ pc = "release"
    /\ released' = released + 1
    /\ stderr' = Append(stderr, [kind |-> "done", count |-> Len(extracted_frames)])
    /\ pc' = "return"
    /\ UNCHANGED <<inputVars, policyVars, fps, loopVars, pos, ret, dir_created,
                   writes, stdout, exit_status>>

\* ---- main: result (lines 150-164) ---------------------------------------------
\* variant: an empty result is reported as an error
MainPrint_RejectEmpty ==
    /\ pc = "return"
    /\ IF extracted_frames = <<>>
       THEN /\ stderr' = Append(stderr, [kind |-> "error"])
            /\ exit_status' = 1
            /\ UNCHANGED stdout
       ELSE /\ stdout' = Append(stdout, [kind |-> "json", payload |-> extracted_frames])
            /\ exit_status' = 0
            /\ UNCHANGED stderr
    /\ pc' = "exited"
    /\ UNCHANGED <<inputVars, policyVars, fps, loopVars, pos, ret, released,
                   dir_created, writes>>

\* print(json.dumps(frames, ...)); the interpreter then exits with status 0
MainPrint ==
    /\ pc = "return"
    /\ stdout' = Append(stdout, [kind |-> "json", payload |-> extracted_frames])
    /\ exit_status' = 0
    /\ pc' = "exited"
    /\ UNCHANGED <<inputVars, policyVars, fps, loopVars, pos, ret, released,
                   dir_created, writes, stderr>>

\* except Exception: message on the error stream, sys.exit(1)
MainExcept ==
    /\ pc = "except"
    /\ stderr' = Append(stderr, [kind |-> "error"])
    /\ exit_status' = 1
    /\ pc' = "exited"
    /\ UNCHANGED <<inputVars, policyVars, fps, loopVars, pos, ret, released,
                   dir_created, writes, stdout>>

Next ==
    \/ MainUsage
    \/ MainBadArgument
    \/ MainParse
    \/ OpenFail
    \/ Open
    \/ ReadEnd
    \/ ReadFail
    \/ FirstFrame
    \/ SkipInterval
    \/ ScoreBelow
    \/ Select
    \/ Release
    \/ MainPrint
    \/ MainExcept

Spec == Init /\ [][Next]_vars

\* The script is one sequential thread: a step that can be taken is taken.
\* Which branch an iteration takes depends on the frames only through their
\* scores, so three of the images (scores 0, 3.99.., 96.0.., 100) are kept here.
FairInit == Init /\ \A i \in 1..Len(video) : video[i] \in {Black, Dim, White}
FairSpec == FairInit /\ [][Next]_vars /\ WF_vars(Next)


\* ---- the loop as a function of the frames read -----------------------------------
\* State of the loop of extract_key_frames (lines 75-78) before any frame
LoopStart(interval) ==
    [extracted_frames |-> <<>>, prev_frame |-> None, frame_count |-> 0,
     last_extracted_frame |-> 0 - interval, stopped |-> FALSE]

\* One iteration of the loop body (lines 86-131) on a decoded frame, fps # 0
LoopBody(c, frame, f, thr, interval, limit) ==
    IF c.stopped THEN c
    ELSE IF c.frame_count = 0 THEN
        [c EXCEPT !.extracted_frames = Append(@, MakeRecord(0, f, 0)),
                  !.prev_frame = frame,
                  !.last_extracted_frame = 0,
                  !.frame_count = 1]
    ELSE IF WithinInterval(c.frame_count, c.last_extracted_frame, interval) THEN
        [c EXCEPT !.frame_count = @ + 1]
    ELSE LET diff_score == ScoreAgainst(c.prev_frame, frame)
             appended == Append(c.extracted_frames,
                                MakeRecord(c.frame_count, f, IntOfScore(diff_score)))
         IN  IF ~ReachesThreshold(diff_score, thr) THEN
                 [c EXCEPT !.frame_count = @ + 1]
             ELSE IF ReachedMax(appended, limit) THEN
                 [c EXCEPT !.extracted_frames = appended,
                           !.last_extracted_frame = c.frame_count,
                           !.prev_frame = frame,
                           !.stopped = TRUE]
             ELSE
                 [c EXCEPT !.extracted_frames = appended,
                           !.last_extracted_frame = c.frame_count,
                           !.prev_frame = frame,
                           !.frame_count = @ + 1]

\* The loop run over the first n frames of a video
RECURSIVE LoopOver(_, _, _, _, _, _)
LoopOver(frames, n, f, thr, interval, limit) ==
    IF n = 0 THEN LoopStart(interval)
    ELSE LoopBody(LoopOver(frames, n - 1, f, thr, interval, limit),
                  frames[n], f, thr, interval, limit)

\* extract_key_frames on a video whose decoder yields exactly `frames`
KeyFramesOf(frames, f, thr, interval, limit) ==
    LoopOver(frames, Len(frames), f, thr, interval, limit).extracted_frames


\* ---- properties -------------------------------------------------------------------
\* the run called extract_key_frames (its first statement creates the directory)
Called == dir_created
Exited == pc = "exited"
JsonOf(frames) == [kind |-> "json", payload |-> frames]
NoJson == \A i \in 1..Len(stdout) : stdout[i].kind # "json"
HasDiagnostic == \E i \in 1..Len(stderr) : stderr[i].kind \in {"error", "traceback"}
LastRecord == extracted_frames[Len(extracted_frames)]

\* C1: with max_frames >= 1 the list of records never has more than max_frames
\* entries, at any point of the loop and when it is returned.
C1_LengthWithinMax ==
    (pc # "main" /\ max_frames >= 1) => Len(extracted_frames) <= max_frames

\* C2: once the number of records equals max_frames the loop is done and does
\* not return to cap.read(); with max_frames = 1 a successful run prints exactly
\* the record of frame 0.
C2_StopsAtMax ==
    /\ (pc = "loop" => Len(extracted_frames) < max_frames)
    /\ (Exited /\ exit_status = 0 /\ max_frames = 1 /\ pos >= 1
            => Len(extracted_frames) = 1 /\ pos = 1)

\* C3: consecutive records are at least min_interval frames apart.
C3_Spacing ==
    \A i \in 1..(Len(extracted_frames) - 1) :
        extracted_frames[i + 1].frame_number - extracted_frames[i].frame_number
            >= min_interval

C3_Witness ==
    /\ Exited
    /\ min_interval >= 2
    /\ Len(extracted_frames) >= 2
    /\ extracted_frames[2].frame_number - extracted_frames[1].frame_number
           = min_interval

\* C4 (as claimed): the first record is frame 0 with diff_score 0; once frame 0
\* has been read the record exists whatever the policy, its image is the first
\* write, and the baseline is frame 0.
C4_FirstRecordAlways ==
    /\ (Len(extracted_frames) >= 1 =>
            /\ extracted_frames[1].frame_number = 0
            /\ extracted_frames[1].diff_score = 0)
    /\ (pos >= 1 =>
            /\ Len(extracted_frames) >= 1
            /\ writes[1] = <<OutputPath(FrameFilename(0)), video[1]>>)
    /\ (pos = 1 =>
            /\ Len(extracted_frames) = 1
            /\ prev_frame = video[1]
            /\ last_extracted_frame = 0)

\* C4 (amended): the first record is frame 0 with diff_score 0; once frame 0 has
\* been read from a video whose frame rate is not 0 the record exists whatever
\* the policy, its image is the first write, and the baseline is frame 0.  With
\* a frame rate of 0 the run raises on frame 0: no record is ever emitted, the
\* baseline is never set, and the run ends with status 1.
C4_FirstRecord ==
    /\ (Len(extracted_frames) >= 1 =>
            /\ extracted_frames[1].frame_number = 0
            /\ extracted_frames[1].diff_score = 0)
    /\ (pos >= 1 /\ fps # 0 =>
            /\ Len(extracted_frames) >= 1
            /\ writes[1] = <<OutputPath(FrameFilename(0)), video[1]>>)
    /\ (pos = 1 /\ fps # 0 =>
            /\ Len(extracted_frames) = 1
            /\ prev_frame = video[1]
            /\ last_extracted_frame = 0)
    /\ (pos >= 1 /\ fps = 0 =>
            /\ pos = 1
            /\ extracted_frames = <<>>
            /\ prev_frame = None
            /\ pc \in {"except", "exited"}
            /\ (Exited => exit_status = 1 /\ NoJson))

\* frame 0 of a video with a non-zero frame rate was recorded under the
\* strictest policy
C4_Witness ==
    /\ pc = "loop"
    /\ pos = 1
    /\ threshold = 100
    /\ min_interval = 2
    /\ max_frames = 1
    /\ Len(extracted_frames) = 1

\* C5: the baseline is always the frame of the most recently emitted record,
\* also after frames that were skipped or scored below the threshold.
C5_BaselineIsLastSelected ==
    Len(extracted_frames) >= 1 =>
        /\ LastRecord.frame_number = last_extracted_frame
        /\ prev_frame = video[LastRecord.frame_number + 1]

\* a frame was scored below the threshold and differs from the baseline
C5_Witness ==
    /\ pc = "loop"
    /\ pos >= 2
    /\ frame_count = pos
    /\ last_extracted_frame < pos - 1
    /\ ~WithinInterval(pos - 1, last_extracted_frame, min_interval)
    /\ video[pos] # prev_frame

\* C6: every run that called extract_key_frames released the handle exactly once
\* when it ends.
C6_ReleasedOnce == (Exited /\ Called) => released = 1

\* C7 (as claimed): a video that opens but yields no frame ends the run like an
\* unopenable one: non-zero status, a diagnostic, no JSON.
C7_EmptyVideoIsFatal ==
    (Exited /\ Called /\ openable /\ pos = 0) =>
        exit_status # 0 /\ HasDiagnostic /\ NoJson

\* C7 (amended): a video that opens but yields no frame is not an error: the run
\* releases the handle, prints the empty JSON array and ends with status 0,
\* writing no image; an unopenable video ends with status 1, a diagnostic and
\* no JSON.
C7_EmptyVideoSucceeds ==
    /\ (Exited /\ Called /\ openable /\ pos = 0 =>
            /\ exit_status = 0
            /\ stdout = <<JsonOf(<<>>)>>
            /\ writes = <<>>)
    /\ (Exited /\ Called /\ ~openable =>
            exit_status = 1 /\ HasDiagnostic /\ NoJson)

C7_Witness ==
    Exited /\ Called /\ openable /\ Len(video) = 0 /\ stdout = <<JsonOf(<<>>)>>

\* C8: a run of main ends either with status 0 and exactly one JSON array on the
\* output stream, or with a non-zero status, a diagnostic on the error stream and
\* no JSON on the output stream.
C8_TwoOutcomes ==
    Exited =>
        \/ exit_status = 0 /\ stdout = <<JsonOf(extracted_frames)>>
        \/ exit_status # 0 /\ HasDiagnostic /\ NoJson

\* C9: a run that ends in an error has written no image and printed no JSON.
C9_NoOutputOnFatal ==
    (Exited /\ exit_status # 0) => writes = <<>> /\ NoJson

\* C10: when the decoder reports no frame after k >= 1 frames, before the end of
\* the video, the loop stops, the run succeeds, and the list is the one the run
\* produces on the video made of those k frames.
C10_DecodeFailureIsEndOfInput ==
    (ret = FALSE /\ pos >= 1 /\ pos < Len(video)) =>
        /\ pc \in {"release", "return", "exited"}
        /\ extracted_frames =
               KeyFramesOf(SubSeq(video, 1, pos), fps, threshold, min_interval,
                           max_frames)
        /\ (Exited => exit_status = 0 /\ stdout = <<JsonOf(extracted_frames)>>)

C10_Witness ==
    /\ Exited
    /\ ret = FALSE
    /\ pos >= 2
    /\ pos < Len(video)
    /\ Len(extracted_frames) >= 2


Max(a, b) == IF a >= b THEN a ELSE b
Min(a, b) == IF a <= b THEN a ELSE b
Succeeded == Exited /\ Called /\ exit_status = 0
FrameNumbers(frames) == [i \in 1..Len(frames) |-> frames[i].frame_number]

\* C11: with threshold = 0 a successful run on a video that yields pos frames
\* emits exactly the frames 0, m, 2m, ... below pos (m = max(min_interval, 1)),
\* cut off after max_frames records.
C11_ZeroThresholdSelectsEverySlot ==
    (Succeeded /\ threshold = 0) =>
        LET m == Max(min_interval, 1)
            n == Min(max_frames, (pos + m - 1) \div m)
        IN  FrameNumbers(extracted_frames) = [i \in 1..n |-> (i - 1) * m]


\* frame at zero-based index n of the video
FrameAt(n) == video[n + 1]

\* C12 (as claimed): with threshold > 0 no record after the first is for a frame
\* identical to the frame decoded immediately before it.
C12_NoRepeatOfPredecessor ==
    threshold > 0 =>
        \A i \in 2..Len(extracted_frames) :
            LET n == extracted_frames[i].frame_number
            IN  FrameAt(n) # FrameAt(n - 1)

\* C12 (amended): with threshold > 0 no record after the first is for a frame
\* identical to the baseline (the frame of the previous record); a frame
\* identical to its predecessor is emitted only when that predecessor was
\* skipped inside the min_interval window.
C12_NoRepeatOfBaseline ==
    threshold > 0 =>
        \A i \in 2..Len(extracted_frames) :
            LET n == extracted_frames[i].frame_number
                p == extracted_frames[i - 1].frame_number
            IN  /\ FrameAt(n) # FrameAt(p)
                /\ (FrameAt(n) = FrameAt(n - 1) =>
                        p < n - 1 /\ (n - 1) - p < min_interval)

C12_Witness ==
    /\ Succeeded
    /\ threshold > 0
    /\ \E i \in 2..Len(extracted_frames) :
           LET n == extracted_frames[i].frame_number
           IN  FrameAt(n) = FrameAt(n - 1)


\* the frames the decoder yielded are one image for indices 0..k-1 and another
\* image from index k on
StepVideo(k) ==
    /\ k >= 1
    /\ pos > k
    /\ \A i \in 0..(k - 1) : FrameAt(i) = FrameAt(0)
    /\ \A i \in k..(pos - 1) : FrameAt(i) = FrameAt(k)
    /\ FrameAt(0) # FrameAt(k)

\* The score of frame b against frame a is the double the scorer returns for
\* them, (mean absolute luminance difference / 255.0) * 100.0.
\* score(a, b) >= t, and d <= score(a, b) < d + 1, for whole numbers t and d
ScoreAtLeast(a, b, t) == FloatGE(ScoreAgainst(a, b), FloatOfInt(t))
IsFloorOfScore(d, a, b) == ScoreAtLeast(a, b, d) /\ ~ScoreAtLeast(a, b, d + 1)

\* 100 * (sum of absolute luminance differences) and 255 * (number of pixels):
\* their quotient is the score without rounding
ScoreNum(a, b) == 100 * SumAbsDiff(a, b, 1)
ScoreDen(a) == 255 * Len(a)

\* C13: on a video that is image A for frames 0..k-1 and image B from frame k,
\* with score(A, B) >= threshold > 0, k >= min_interval and max_frames >= 2, a
\* successful run returns exactly two records: frame 0 with diff_score 0 and
\* frame k with diff_score floor(score(A, B)).
C13_StepVideoGivesTwoRecords ==
    (Succeeded /\ threshold > 0 /\ max_frames >= 2) =>
        \A k \in 1..Len(video) :
            (/\ StepVideo(k)
             /\ k >= min_interval
             /\ ScoreAtLeast(FrameAt(0), FrameAt(k), threshold))
            => /\ Len(extracted_frames) = 2
               /\ extracted_frames[1].frame_number = 0
               /\ extracted_frames[1].diff_score = 0
               /\ extracted_frames[2].frame_number = k
               /\ IsFloorOfScore(extracted_frames[2].diff_score,
                                 FrameAt(0), FrameAt(k))

\* frames of image B were scored after the record of frame k
C13_Witness ==
    /\ Succeeded
    /\ threshold > 0
    /\ max_frames >= 3
    /\ min_interval <= 1
    /\ pos = 4
    /\ StepVideo(2)
    /\ Len(extracted_frames) = 2
    /\ extracted_frames[2].frame_number = 2


\* C14: every record's diff_score is an integer in 0..100: 0 for the first
\* record, and for a later record the floor of the score of its frame against
\* the frame of the record before it (the double (mean absolute luminance
\* difference / 255.0) * 100.0).
C14_DiffScoreRange ==
    \A i \in 1..Len(extracted_frames) :
        LET d == extracted_frames[i].diff_score
        IN  /\ d \in 0..100
            /\ (i = 1 => d = 0)
            /\ (i > 1 => IsFloorOfScore(d,
                             FrameAt(extracted_frames[i - 1].frame_number),
                             FrameAt(extracted_frames[i].frame_number)))

\* a record whose score is not a whole number (rounding left the double just
\* below the quotient 4, and 3 is recorded), and one with the maximal score
C14_Witness ==
    /\ Succeeded
    /\ Len(extracted_frames) >= 3
    /\ \E i \in 2..Len(extracted_frames) :
           LET a == FrameAt(extracted_frames[i - 1].frame_number)
               b == FrameAt(extracted_frames[i].frame_number)
               d == extracted_frames[i].diff_score
           IN  /\ ScoreAgainst(a, b) # FloatOfInt(d)
               /\ (d + 1) * ScoreDen(a) = ScoreNum(a, b)
    /\ \E i \in 2..Len(extracted_frames) : extracted_frames[i].diff_score = 100


\* C16: a frame at index i > 0 read by the loop is emitted iff
\* i - last_extracted_frame >= min_interval and its score against the baseline
\* is >= threshold (equality selects); a frame inside the min_interval window
\* changes nothing but the frame counter (and the decoder's position).
C16_SelectionRule ==
    [][(pc = "loop" /\ pos' = pos + 1 /\ frame_count > 0) =>
          LET frame == FrameAt(pos)
              spaced == pos - last_extracted_frame >= min_interval
              reaches == ScoreAtLeast(prev_frame, frame, threshold)
              emitted == Len(extracted_frames') = Len(extracted_frames) + 1
          IN  /\ emitted <=> (spaced /\ reaches)
              /\ emitted =>
                    /\ SubSeq(extracted_frames', 1, Len(extracted_frames))
                           = extracted_frames
                    /\ extracted_frames'[Len(extracted_frames')].frame_number = pos
                    /\ prev_frame' = frame
                    /\ last_extracted_frame' = pos
              /\ ~emitted =>
                    /\ UNCHANGED <<extracted_frames, prev_frame,
                                   last_extracted_frame, writes, stdout, stderr,
                                   released, exit_status, pc>>
                    /\ frame_count' = frame_count + 1
      ]_vars

\* a record whose score equals the threshold, emitted after skipped frames
C16_Witness ==
    /\ Succeeded
    /\ threshold > 0
    /\ min_interval >= 2
    /\ \E i \in 2..Len(extracted_frames) :
           LET a == FrameAt(extracted_frames[i - 1].frame_number)
               b == FrameAt(extracted_frames[i].frame_number)
           IN  ScoreAgainst(a, b) = FloatOfInt(threshold)


\* name is "frame_" + the six decimal digits of n + ".jpg"
IsPaddedName(name, n) ==
    /\ Len(name) = 8
    /\ name[1] = "frame_"
    /\ name[8] = ".jpg"
    /\ \A j \in 2..7 : name[j] \in 0..9
    /\ n = name[2] * 100000 + name[3] * 10000 + name[4] * 1000
             + name[5] * 100 + name[6] * 10 + name[7]

\* C17: in a run that returns successfully the image writes and the records
\* correspond one to one, in order: the i-th write stores the frame of the i-th
\* record in the output directory under the record's filename, which is
\* frame_<frame_number on six digits>.jpg.
C17_OneImagePerRecord ==
    Succeeded =>
        /\ Len(writes) = Len(extracted_frames)
        /\ \A i \in 1..Len(extracted_frames) :
               LET r == extracted_frames[i]
               IN  /\ writes[i][1] = [dir |-> "output_dir", base |-> r.filename]
                   /\ writes[i][2] = FrameAt(r.frame_number)
                   /\ IsPaddedName(r.filename, r.frame_number)

C17_Witness ==
    /\ Succeeded
    /\ Len(extracted_frames) = 3
    /\ Len(writes) = 3
    /\ extracted_frames[3].frame_number = 3
    /\ pos = 4


\* C18: the records are in strictly increasing frame_number order (also with
\* min_interval = 0); at every head of the loop frame_count is the number of
\* frames read so far, and each record's frame_number is the zero-based position
\* in the video of the frame that was written for it.
C18_OrderedAndPositional ==
    /\ \A i \in 1..Len(extracted_frames) : \A j \in 1..Len(extracted_frames) :
           i < j => extracted_frames[i].frame_number < extracted_frames[j].frame_number
    /\ (pc = "loop" => frame_count = pos)
    /\ \A i \in 1..Len(extracted_frames) :
           /\ extracted_frames[i].frame_number \in 0..(pos - 1)
           /\ writes[i][2] = FrameAt(extracted_frames[i].frame_number)
    /\ (Len(extracted_frames) >= 1 => last_extracted_frame = LastRecord.frame_number)

\* consecutive frames selected with min_interval = 0, and a later one after
\* frames that were scored but not selected
C18_Witness ==
    /\ Succeeded
    /\ min_interval = 0
    /\ threshold > 0
    /\ Len(extracted_frames) = 3
    /\ extracted_frames[2].frame_number = 1
    /\ extracted_frames[3].frame_number = 3


\* C19: the loop terminates on every video: whenever the run is in the loop it
\* later leaves it, every iteration that stays in the loop has consumed exactly
\* one frame, a read past the last frame leaves the loop from any loop state,
\* and after the loop the records are unchanged and are what a successful run
\* prints.
C19_LoopTerminates ==
    /\ (pc = "loop") ~> Exited
    /\ [][/\ (pc = "loop" /\ pc' = "loop" => pos' = pos + 1)
          /\ (pc = "loop" /\ pos = Len(video) => pc' = "release")
          /\ (pc \in {"release", "return", "exited"} =>
                  extracted_frames' = extracted_frames)]_vars
    /\ [](Succeeded => stdout = <<JsonOf(extracted_frames)>>)

\* the loop ended by exhaustion while frames were being skipped in the window
C19_Witness ==
    /\ Succeeded
    /\ ret = FALSE
    /\ pos = Len(video)
    /\ pos >= 3
    /\ WithinInterval(frame_count, last_extracted_frame, min_interval)

====
